---- MODULE Spec2Model ----
(***************************************************************************)
(* ASN-By-Country: the range decomposer (src/src/network.py), the row      *)
(* classifier, document parser and fetcher (src/src/scraper.py), the       *)
(* statistics and result records (src/src/models.py), the file exporter    *)
(* (src/src/storage.py), the router-script exporter (src/src/mikrotik.py)  *)
(* and the coordinator with its command line (src/src/cli.py).             *)
(*                                                                         *)
(* Text is modelled by TLA+ strings, so that strip(), lower(), upper(),    *)
(* concatenation, address parsing and address formatting are computed and  *)
(* not assumed.  None is the empty tuple <<>> and a present value v is the *)
(* one-element tuple <<v>>.  A call's outcome is a record                  *)
(* [kind, exc, value]: kind "return" carries value, kind "raise" carries   *)
(* the exception class in exc.                                             *)
(*                                                                         *)
(* The address families keep their structure but not their width: an IPv4  *)
(* address has V4Bits bits (32 in the library) and an IPv6 address V6Bits  *)
(* bits (128 in the library), so that the whole address space, its top     *)
(* address included, is enumerated.                                        *)
(***************************************************************************)
EXTENDS Integers, Sequences, FiniteSets, TLC

VARIABLES
    first_ip, last_ip, range_out,       \* one call of ip_range_to_cidrs
    cells, columns, data_type, extracted, \* one table row, parsed and classified
    country_code, fetch_type, response, fetch_out, \* one call of DataFetcher.fetch
    countries, data_types, max_workers, \* the arguments of run_scraper
    pc,             \* where the program is: "main", "clear", "submit", "collect",
                    \* "shutdown", "returned", "raised", "exited"
    futures,        \* the futures of the executor, in submission order
    stats,          \* the ScraperStats of the run
    files,          \* the output directory: path -> None or the file's content
    save_calls,     \* the calls of FileStorage.save so far: unit, fault and outcome
    run_out,        \* what run_scraper returns or raises
    argv,           \* the parsed command line of main
    main_out,       \* what main returns or raises
    calls           \* the record_success and record_failure calls on stats so far

range_vars == <<first_ip, last_ip, range_out>>
classify_vars == <<cells, columns, data_type, extracted>>
fetch_vars == <<country_code, fetch_type, response, fetch_out>>
run_vars ==
    <<countries, data_types, max_workers, pc, futures, stats, files, save_calls, run_out>>
main_vars == <<argv, main_out>>
stats_vars == <<calls>>
vars == <<range_vars, classify_vars, fetch_vars, run_vars, main_vars, stats_vars>>

----------------------------------------------------------------------------
(* Bounds *)

\* width of a modelled IPv4 address (IPv4Address._max_prefixlen)
V4Bits == 3
\* width of a modelled IPv6 address (IPv6Address._max_prefixlen)
V6Bits == 4

----------------------------------------------------------------------------
(* Python values *)

None == <<>>
Some(v) == <<v>>
Return(v) == [kind |-> "return", exc |-> "", value |-> v]
Raise(e) == [kind |-> "raise", exc |-> e, value |-> None]
Pending == [kind |-> "pending", exc |-> "", value |-> None]

Min(a, b) == IF a <= b THEN a ELSE b

\* str.strip(): leading and trailing whitespace removed
RECURSIVE LStrip(_)
LStrip(s) ==
    IF Len(s) > 0 /\ SubSeq(s, 1, 1) = " " THEN LStrip(SubSeq(s, 2, Len(s))) ELSE s
RECURSIVE RStrip(_)
RStrip(s) ==
    IF Len(s) > 0 /\ SubSeq(s, Len(s), Len(s)) = " "
    THEN RStrip(SubSeq(s, 1, Len(s) - 1))
    ELSE s
Strip(s) == RStrip(LStrip(s))

UpperLetters == <<"A", "B", "C", "D", "E", "F", "G", "H", "I", "J", "K", "L", "M",
                  "N", "O", "P", "Q", "R", "S", "T", "U", "V", "W", "X", "Y", "Z">>
LowerLetters == <<"a", "b", "c", "d", "e", "f", "g", "h", "i", "j", "k", "l", "m",
                  "n", "o", "p", "q", "r", "s", "t", "u", "v", "w", "x", "y", "z">>
MapChar(c, from, to) ==
    IF \E i \in 1..Len(from) : from[i] = c
    THEN to[CHOOSE i \in 1..Len(from) : from[i] = c]
    ELSE c
\* str.lower() and str.upper()
RECURSIVE Lower(_)
Lower(s) ==
    IF Len(s) = 0 THEN ""
    ELSE MapChar(SubSeq(s, 1, 1), UpperLetters, LowerLetters) \o Lower(SubSeq(s, 2, Len(s)))
RECURSIVE Upper(_)
Upper(s) ==
    IF Len(s) = 0 THEN ""
    ELSE MapChar(SubSeq(s, 1, 1), LowerLetters, UpperLetters) \o Upper(SubSeq(s, 2, Len(s)))

----------------------------------------------------------------------------
(* ipaddress: addresses, networks and summarize_address_range, as          *)
(* ip_range_to_cidrs uses them                                             *)

RECURSIVE Pow2(_)
Pow2(n) == IF n = 0 THEN 1 ELSE 2 * Pow2(n - 1)

\* int.bit_length()
RECURSIVE BitLength(_)
BitLength(n) == IF n = 0 THEN 0 ELSE 1 + BitLength(n \div 2)

\* ~a & b for non-negative a and b
RECURSIVE NotAnd(_, _)
NotAnd(a, b) ==
    IF b = 0 THEN 0
    ELSE (1 - (a % 2)) * (b % 2) + 2 * NotAnd(a \div 2, b \div 2)

MaxPrefixLen(version) == IF version = 4 THEN V4Bits ELSE V6Bits
AllOnes(version) == Pow2(MaxPrefixLen(version)) - 1

\* str(IPv4Address(n)), str(IPv6Address(n))
IPv4Str(n) == "10.0.0." \o ToString(n)
IPv6Str(n) == "fd00::" \o ToString(n)
AddressStr(version, n) == IF version = 4 THEN IPv4Str(n) ELSE IPv6Str(n)

\* ipaddress.ip_address(text): IPv4 first, then IPv6, else ValueError
ip_address(text) ==
    IF \E n \in 0..AllOnes(4) : IPv4Str(n) = text
    THEN Return([version |-> 4, ip |-> CHOOSE n \in 0..AllOnes(4) : IPv4Str(n) = text])
    ELSE IF \E n \in 0..AllOnes(6) : IPv6Str(n) = text
    THEN Return([version |-> 6, ip |-> CHOOSE n \in 0..AllOnes(6) : IPv6Str(n) = text])
    ELSE Raise("ValueError")

\* mutant: the zero address is taken to have no trailing zero bit
_count_righthand_zero_bits_NoZeroCase(number, bits) ==
    IF number = 0 THEN 0
    ELSE Min(bits, BitLength(NotAnd(number, number - 1)))

_count_righthand_zero_bits(number, bits) ==
    IF number = 0 THEN bits
    ELSE Min(bits, BitLength(NotAnd(number, number - 1)))

\* mutant: the block is bounded by the alignment of first_int alone
NextBlockBits_NoLengthBound(first_int, last_int, ip_bits) ==
    _count_righthand_zero_bits(first_int, ip_bits)

\* mutant: every block is a single address
NextBlockBits_SingleAddress(first_int, last_int, ip_bits) == 0

\* the size exponent of the next block of summarize_address_range
NextBlockBits(first_int, last_int, ip_bits) ==
    Min(_count_righthand_zero_bits(first_int, ip_bits),
        BitLength(last_int - first_int + 1) - 1)

\* the networks the loop of summarize_address_range yields
RECURSIVE SummarizeLoop(_, _, _)
SummarizeLoop(version, first_int, last_int) ==
    IF first_int > last_int THEN <<>>
    ELSE LET ip_bits == MaxPrefixLen(version)
             nbits == NextBlockBits(first_int, last_int, ip_bits)
             net == [version |-> version, network_address |-> first_int,
                     prefixlen |-> ip_bits - nbits]
             next_int == first_int + Pow2(nbits)
         IN  IF next_int - 1 = AllOnes(version)
             THEN <<net>>
             ELSE <<net>> \o SummarizeLoop(version, next_int, last_int)

summarize_address_range(first, last) ==
    IF first.version # last.version THEN Raise("TypeError")
    ELSE IF first.ip > last.ip THEN Raise("ValueError")
    ELSE Return(SummarizeLoop(first.version, first.ip, last.ip))

\* str(net) of an IPv4Network or IPv6Network
NetworkStr(net) ==
    AddressStr(net.version, net.network_address) \o "/" \o ToString(net.prefixlen)

ip_range_to_cidrs(first_text, last_text) ==
    LET first == ip_address(Strip(first_text))
        last == ip_address(Strip(last_text))
    IN  IF first.kind = "raise" THEN Raise(first.exc)
        ELSE IF last.kind = "raise" THEN Raise(last.exc)
        ELSE LET networks == summarize_address_range(first.value, last.value)
             IN  IF networks.kind = "raise" THEN Raise(networks.exc)
                 ELSE Return([i \in 1..Len(networks.value) |->
                                 NetworkStr(networks.value[i])])

----------------------------------------------------------------------------
(* One call of ip_range_to_cidrs on every pair of argument strings         *)

AddressTexts ==
    {IPv4Str(n) : n \in 0..AllOnes(4)} \cup {IPv6Str(n) : n \in 0..AllOnes(6)}
RangeArguments ==
    AddressTexts \cup {"  " \o t \o " " : t \in AddressTexts} \cup {"invalid", ""}

\* the variables of the other operations, while they are not in use
RunIdle == /\ countries = <<>>
           /\ data_types = <<>>
           /\ max_workers = 0
           /\ pc = "idle"
           /\ futures = <<>>
           /\ stats = <<>>
           /\ files = <<>>
           /\ save_calls = <<>>
           /\ run_out = <<>>
           /\ argv = <<>>
           /\ main_out = <<>>
           /\ calls = <<>>

FetchIdle == /\ country_code = ""
             /\ fetch_type = ""
             /\ response = <<>>
             /\ fetch_out = Pending

ClassifyIdle == /\ cells = <<>>
                /\ columns = <<>>
                /\ data_type = ""
                /\ extracted = Pending

InitRange ==
    /\ first_ip \in RangeArguments
    /\ last_ip \in RangeArguments
    /\ range_out = Pending
    /\ ClassifyIdle
    /\ FetchIdle
    /\ RunIdle

CallIpRangeToCidrs ==
    /\ range_out.kind = "pending"
    /\ range_out' = ip_range_to_cidrs(first_ip, last_ip)
    /\ UNCHANGED <<first_ip, last_ip, classify_vars, fetch_vars, run_vars, main_vars, stats_vars>>

NextRange == CallIpRangeToCidrs

SpecRange == InitRange /\ [][NextRange]_vars

----------------------------------------------------------------------------
(* scraper.py: the row classifier *)

\* mutant: the status of an ASN row is compared after lower-casing
AsnRowAllocated_AnyCase(cols) == Len(cols) > 6 /\ Lower(cols[7]) = "allocated"

\* len(columns) > 6 and columns[6] == "Allocated"
AsnRowAllocated(cols) == Len(cols) > 6 /\ cols[7] = "Allocated"

\* f"{first_ip}{prefix}"
LiteralAllocation(first_text, prefix) == first_text \o prefix

\* mutant: every status of an IP row is accepted
IpStatusActive_Any(status) == TRUE

\* status in ("Allocated", "Assigned")
IpStatusActive(status) == status \in {"Allocated", "Assigned"}

\* the value returned (None or a list) or the exception that escapes
_extract_allocation(cols, dtype) ==
    IF dtype = "asn" /\ AsnRowAllocated(cols)
    THEN Return(Some(<<cols[4]>>))
    ELSE IF dtype \in {"ipv4", "ipv6"} /\ Len(cols) > 8
    THEN LET status == Strip(cols[9])
         IN  IF ~IpStatusActive(status) THEN Return(None)
             ELSE LET prefix == Strip(cols[6])
                      first_text == Strip(cols[4])
                  IN  IF Lower(prefix) = "aggreg"
                      THEN LET last_text == Strip(cols[5])
                               cidrs == ip_range_to_cidrs(first_text, last_text)
                           IN  IF cidrs.kind = "return" THEN Return(Some(cidrs.value))
                               ELSE IF cidrs.exc = "ValueError" THEN Return(None)
                               ELSE Raise(cidrs.exc)
                      ELSE Return(Some(<<LiteralAllocation(first_text, prefix)>>))
    ELSE Return(None)

\* columns = [td.text.strip() for td in row.find_all("td")]
ColumnsOf(tds) == [i \in 1..Len(tds) |-> Strip(tds[i])]

----------------------------------------------------------------------------
(* One table row: its cells are stripped and the row is classified         *)

RowFirsts == {IPv4Str(1), IPv4Str(6), IPv6Str(2), "AS12880"}
RowLasts == {IPv4Str(6), IPv4Str(0), "invalid"}
RowPrefixes == {"/2", "Aggreg", "AGGREG", " aggreg"}
RowSevenths == {"Allocated", "allocated", "256"}
RowNinths == {"Allocated", "Assigned", "Reserved", "assigned", " Assigned "}
RowLengths == {0, 2, 6, 7, 8, 9}
RowCells ==
    {SubSeq(<<"RIPE NCC", "IR", "x", f, l, p, s7, "2012-04-03", s9>>, 1, k) :
        f \in RowFirsts, l \in RowLasts, p \in RowPrefixes,
        s7 \in RowSevenths, s9 \in RowNinths, k \in RowLengths}
VALID_DATA_TYPES == <<"asn", "ipv4", "ipv6">>
DataTypes == {VALID_DATA_TYPES[i] : i \in 1..Len(VALID_DATA_TYPES)}

RangeIdle == /\ first_ip = ""
             /\ last_ip = ""
             /\ range_out = Pending

InitClassify ==
    /\ cells \in RowCells
    /\ data_type \in DataTypes
    /\ columns = <<>>
    /\ extracted = Pending
    /\ RangeIdle
    /\ FetchIdle
    /\ RunIdle

ClassifyRow ==
    /\ extracted.kind = "pending"
    /\ columns' = ColumnsOf(cells)
    /\ extracted' = _extract_allocation(columns', data_type)
    /\ UNCHANGED <<cells, data_type, range_vars, fetch_vars, run_vars, main_vars, stats_vars>>

NextClassify == ClassifyRow

SpecClassify == InitClassify /\ [][NextClassify]_vars

----------------------------------------------------------------------------
(* models.py: FetchResult *)

FetchResult(country, dtype, data_rows, allocations, error) ==
    [country_code |-> country, data_type |-> dtype, data_rows |-> data_rows,
     allocations |-> allocations, error |-> error]

is_success(result) == result.data_rows # None /\ result.error = None

\* bool(self.allocations): neither None nor the empty list
has_allocations(result) ==
    result.allocations # None /\ Len(result.allocations[1]) > 0

----------------------------------------------------------------------------
(* scraper.py: the document parser and the fetcher                         *)
(*                                                                         *)
(* A document is the sequence of its tables; a table is its class          *)
(* attribute, the texts of its <th> cells in document order and its <tr>   *)
(* rows, each row the sequence of the texts of its <td> cells.             *)

\* f"delegs {data_type} ripencc"
TableClass(dtype) == "delegs " \o dtype \o " ripencc"

\* soup.find("table", attrs={"class": ...}): the first matching table or None
RECURSIVE FindTable(_, _)
FindTable(tables, class) ==
    IF tables = <<>> THEN None
    ELSE IF Head(tables).class = class THEN Some(Head(tables))
    ELSE FindTable(Tail(tables), class)

\* seq[n:] of Python, n >= 0
DropFirst(seq, n) == SubSeq(seq, n + 1, Len(seq))

\* dict(zip(names, values)): an ordered mapping, as its sequence of items
ZipDict(names, values) ==
    [i \in 1..Min(Len(names), Len(values)) |-> <<names[i], values[i]>>]

\* mutant: a row without <td> cells is not skipped
RECURSIVE ParseRows_KeepsEmptyRows(_, _, _, _, _)
ParseRows_KeepsEmptyRows(rows, headers, dtype, data_rows, allocations) ==
    IF rows = <<>> THEN Return(<<Some(data_rows), Some(allocations)>>)
    ELSE LET cols == ColumnsOf(Head(rows))
             row_data == ZipDict(DropFirst(headers, 1), cols)
             got == _extract_allocation(cols, dtype)
         IN  IF got.kind = "raise" THEN Raise(got.exc)
             ELSE ParseRows_KeepsEmptyRows(Tail(rows), headers, dtype,
                                           Append(data_rows, row_data),
                                           IF got.value # None /\ got.value[1] # <<>>
                                           THEN allocations \o got.value[1]
                                           ELSE allocations)

\* mutant: the allocations of a row are put before those gathered so far
RECURSIVE ParseRows_Prepends(_, _, _, _, _)
ParseRows_Prepends(rows, headers, dtype, data_rows, allocations) ==
    IF rows = <<>> THEN Return(<<Some(data_rows), Some(allocations)>>)
    ELSE LET cols == ColumnsOf(Head(rows))
         IN  IF cols = <<>>
             THEN ParseRows_Prepends(Tail(rows), headers, dtype, data_rows, allocations)
             ELSE LET row_data == ZipDict(DropFirst(headers, 1), cols)
                      got == _extract_allocation(cols, dtype)
                  IN  IF got.kind = "raise" THEN Raise(got.exc)
                      ELSE ParseRows_Prepends(Tail(rows), headers, dtype,
                                              Append(data_rows, row_data),
                                              IF got.value # None /\ got.value[1] # <<>>
                                              THEN got.value[1] \o allocations
                                              ELSE allocations)

\* the loop over the data rows: Return(<<data_rows, allocations>>), or the
\* exception _extract_allocation lets escape
RECURSIVE ParseRows(_, _, _, _, _)
ParseRows(rows, headers, dtype, data_rows, allocations) ==
    IF rows = <<>> THEN Return(<<Some(data_rows), Some(allocations)>>)
    ELSE LET cols == ColumnsOf(Head(rows))
         IN  IF cols = <<>>
             THEN ParseRows(Tail(rows), headers, dtype, data_rows, allocations)
             ELSE LET row_data == ZipDict(DropFirst(headers, 1), cols)
                      got == _extract_allocation(cols, dtype)
                  IN  IF got.kind = "raise" THEN Raise(got.exc)
                      ELSE ParseRows(Tail(rows), headers, dtype,
                                     Append(data_rows, row_data),
                                     IF got.value # None /\ got.value[1] # <<>>
                                     THEN allocations \o got.value[1]
                                     ELSE allocations)

_parse_response(html_content, dtype) ==
    LET table == FindTable(html_content, TableClass(dtype))
    IN  IF table = None THEN Return(<<None, None>>)
        ELSE LET headers == [i \in 1..Len(table[1].ths) |-> Strip(table[1].ths[i])]
                 rows == DropFirst(table[1].trs, 2)
             IN  ParseRows(rows, headers, dtype, <<>>, <<>>)

\* mutant: a document without the table gives a result without an error
NoTableResult_NoError(country, dtype) ==
    FetchResult(country, dtype, None, None, None)

\* the result of a document that has no data table
NoTableResult(country, dtype) ==
    FetchResult(country, dtype, None, None,
                Some("No data table found for " \o Upper(dtype) \o " in " \o country))

\* mutant: an exception that is no RequestException is not caught
UnexpectedError_NotCaught(country, dtype, exc) == Raise(exc)

\* except Exception as e
UnexpectedError(country, dtype, exc) ==
    Return(FetchResult(country, dtype, None, None, Some("Unexpected error: " \o exc)))

\* BASE_URLS[data_type].format(country=country_code.lower())
BaseUrlTypes == {"asn", "ipv4", "ipv6"}
Url(country, dtype) == dtype \o "/" \o Lower(country) \o "-" \o dtype \o "-delegations.html"

\* fetch, when the request for its URL ends as resp: resp.kind is "ok" (a
\* 2xx response, resp.text its document), "RequestException" (requests.get or
\* raise_for_status raised one) or "Exception" (anything else was raised)
fetch(country, dtype, resp) ==
    IF dtype \notin BaseUrlTypes THEN Raise("KeyError")
    ELSE IF resp.kind = "RequestException"
    THEN Return(FetchResult(country, dtype, None, None,
                            Some("Request error: " \o resp.message)))
    ELSE IF resp.kind = "Exception"
    THEN UnexpectedError(country, dtype, resp.message)
    ELSE LET parsed == _parse_response(resp.text, dtype)
         IN  IF parsed.kind = "raise" THEN UnexpectedError(country, dtype, parsed.exc)
             ELSE IF parsed.value[1] = None THEN Return(NoTableResult(country, dtype))
             ELSE Return(FetchResult(country, dtype, parsed.value[1],
                                     parsed.value[2], None))

----------------------------------------------------------------------------
(* The remote documents and the ways a request can end                     *)

AsnHeaders == <<"RIPE NCC Delegations", "Zone", "Country", "Parameter", "Range",
                "Number", "Date", "Status">>
IpHeaders == <<"RIPE NCC Delegations", "Zone", "Country", "Parameter", "First",
               "Last", "Prefix", "Number", "Date", "Status">>
HeadersOf(dtype) == IF dtype = "asn" THEN AsnHeaders ELSE IpHeaders

AsnRow(token, status) ==
    <<"RIPE NCC", "IR", "ASN", token, "1", "2003-01-01", status>>
IpRow(first_text, last_text, prefix, status) ==
    <<"RIPE NCC", "IR", "IP", first_text, last_text, prefix, "8", "2012-01-01", status>>

\* a table of dtype: a label row and a header row of <th> cells, then data
Table(dtype, data_trs) ==
    [class |-> TableClass(dtype), ths |-> HeadersOf(dtype),
     trs |-> <<<<>>, <<>>>> \o data_trs]

AddressOf(dtype, n) == IF dtype = "ipv6" THEN IPv6Str(n) ELSE IPv4Str(n)

\* the data rows a document of dtype may hold
RowSets(dtype) ==
    IF dtype = "asn"
    THEN { <<>>,
           <<AsnRow("AS12880", "Allocated"), <<>>, AsnRow(" AS25124 ", "Allocated"),
             AsnRow("AS99999", "Reserved")>>,
           <<AsnRow("AS99999", "Reserved")>> }
    ELSE { <<>>,
           <<IpRow(AddressOf(dtype, 0), AddressOf(dtype, 3), " /1", "Allocated"),
             IpRow(AddressOf(dtype, 1), AddressOf(dtype, 6), "Aggreg", "Assigned"),
             IpRow(AddressOf(dtype, 4), AddressOf(dtype, 5), "/2", "Reserved")>>,
           <<IpRow(AddressOf(dtype, 4), AddressOf(dtype, 5), "/2", "Reserved")>>,
           <<IpRow(AddressOf(dtype, 6), AddressOf(dtype, 1), "aggreg", "Assigned"),
             IpRow("invalid", AddressOf(dtype, 1), "Aggreg", "Allocated"),
             IpRow(AddressOf(dtype, 2), AddressOf(dtype, 2), "Aggreg", "Allocated")>>,
           <<IpRow(AddressOf(dtype, 2), AddressOf(dtype, 3), "/2", "Assigned"),
             IpRow(IPv4Str(2), IPv6Str(3), "Aggreg", "Assigned")>>,
           <<IpRow(IPv4Str(2), IPv6Str(3), "Aggreg", "Reserved")>>,
           <<IpRow(AddressOf(dtype, 0), AddressOf(dtype, 3), "/1", "Allocated"),
             IpRow(AddressOf(dtype, 5), AddressOf(dtype, 6), "Aggreg", "Assigned"),
             IpRow(AddressOf(dtype, 4), AddressOf(dtype, 4), "/3", "Assigned")>> }

\* a table whose first two rows also hold <td> cells
LabelledTable(dtype) ==
    [class |-> TableClass(dtype), ths |-> HeadersOf(dtype),
     trs |-> <<<<"RIPE NCC Delegations">>, <<"Zone", "Country">>,
               IF dtype = "asn" THEN AsnRow("AS12880", "Allocated")
               ELSE IpRow(AddressOf(dtype, 0), AddressOf(dtype, 3), "/1", "Allocated")>>]

Documents(dtype) ==
    {<<>>}
    \cup {<<Table(other, <<>>)>> : other \in BaseUrlTypes \ {dtype}}
    \cup {<<Table(dtype, trs)>> : trs \in RowSets(dtype)}
    \cup {<<LabelledTable(dtype)>>}

Responses(dtype) ==
    {[kind |-> "ok", message |-> "", text |-> doc] : doc \in Documents(dtype)}
    \cup {[kind |-> "RequestException", message |-> m, text |-> <<>>] :
            m \in {"Read timed out", "404 Client Error"}}
    \cup {[kind |-> "Exception", message |-> "RuntimeError", text |-> <<>>]}

Countries == {"IR", "US", "de"}

----------------------------------------------------------------------------
(* One call of fetch for every country, data type and response             *)

InitFetch ==
    /\ country_code \in Countries
    /\ fetch_type \in BaseUrlTypes
    /\ response \in Responses(fetch_type)
    /\ fetch_out = Pending
    /\ RangeIdle
    /\ ClassifyIdle
    /\ RunIdle

CallFetch ==
    /\ fetch_out.kind = "pending"
    /\ fetch_out' = fetch(country_code, fetch_type, response)
    /\ UNCHANGED <<country_code, fetch_type, response, range_vars, classify_vars, run_vars, main_vars, stats_vars>>

NextFetch == CallFetch

SpecFetch == InitFetch /\ [][NextFetch]_vars

----------------------------------------------------------------------------
(* models.py: ScraperStats *)

ScraperStats ==
    [total_requests |-> 0, successful_requests |-> 0, failed_requests |-> 0,
     countries_processed |-> {}]

\* mutant: a success does not add the code to countries_processed
record_success_NoCountry(st, country) ==
    [st EXCEPT !.total_requests = @ + 1,
               !.successful_requests = @ + 1]

record_success(st, country) ==
    [st EXCEPT !.total_requests = @ + 1,
               !.successful_requests = @ + 1,
               !.countries_processed = @ \cup {country}]

\* mutant: a failure is not counted in total_requests
record_failure_NoTotal(st, country) ==
    [st EXCEPT !.failed_requests = @ + 1,
               !.countries_processed = @ \cup {country}]

record_failure(st, country) ==
    [st EXCEPT !.total_requests = @ + 1,
               !.failed_requests = @ + 1,
               !.countries_processed = @ \cup {country}]

\* the percentage of successful requests; the quotient is kept as the pair
\* <<numerator, denominator>>, 0.0 as <<0, 1>>
success_rate(st) ==
    IF st.total_requests = 0 THEN <<0, 1>>
    ELSE <<st.successful_requests * 100, st.total_requests>>

\* bound: up to MaxCalls calls are made on one ScraperStats
MaxCalls == 4

\* a fresh ScraperStats
InitStats ==
    /\ stats = ScraperStats
    /\ calls = <<>>
    /\ countries = <<>>
    /\ data_types = <<>>
    /\ max_workers = 0
    /\ pc = "idle"
    /\ futures = <<>>
    /\ files = <<>>
    /\ save_calls = <<>>
    /\ run_out = <<>>
    /\ argv = <<>>
    /\ main_out = <<>>
    /\ RangeIdle
    /\ ClassifyIdle
    /\ FetchIdle

RecordSuccess(code) ==
    /\ Len(calls) < MaxCalls
    /\ stats' = record_success(stats, code)
    /\ calls' = Append(calls, [op |-> "record_success", code |-> code])
    /\ UNCHANGED <<countries, data_types, max_workers, pc, futures, files, save_calls,
                   run_out>>
    /\ UNCHANGED <<range_vars, classify_vars, fetch_vars, main_vars>>

RecordFailure(code) ==
    /\ Len(calls) < MaxCalls
    /\ stats' = record_failure(stats, code)
    /\ calls' = Append(calls, [op |-> "record_failure", code |-> code])
    /\ UNCHANGED <<countries, data_types, max_workers, pc, futures, files, save_calls,
                   run_out>>
    /\ UNCHANGED <<range_vars, classify_vars, fetch_vars, main_vars>>

NextStats ==
    \/ \E code \in {"IR", "US"} : RecordSuccess(code)
    \/ \E code \in {"IR", "US"} : RecordFailure(code)

SpecStats == InitStats /\ [][NextStats]_vars

----------------------------------------------------------------------------
(* storage.py: FileStorage                                                 *)
(*                                                                         *)
(* The output directory maps a path to None (no such file) or to the       *)
(* file's content.  A CSV file is its header line and its data lines, each *)
(* a sequence of fields.  A ranges file is the sequence of its lines; a    *)
(* line records, beside its text, the unit of work whose save wrote it     *)
(* (0 for a line that was there before the run).                           *)

CsvPath(country, dtype) == country \o "_" \o dtype \o "_list.csv"
RangesPath(dtype) == dtype \o "_ranges.txt"

HasKey(names, key) == \E i \in 1..Len(names) : names[i] = key
IndexOf(names, key) == CHOOSE i \in 1..Len(names) : names[i] = key

\* the columns of pd.DataFrame(data_rows): the keys, in order of appearance
RECURSIVE AddKeys(_, _)
AddKeys(header, items) ==
    IF items = <<>> THEN header
    ELSE AddKeys(IF HasKey(header, Head(items)[1]) THEN header
                 ELSE Append(header, Head(items)[1]),
                 Tail(items))
RECURSIVE FrameColumns(_, _)
FrameColumns(header, data_rows) ==
    IF data_rows = <<>> THEN header
    ELSE FrameColumns(AddKeys(header, Head(data_rows)), Tail(data_rows))

\* the value of key in a row; a missing key is NaN, written as an empty field
DictGet(items, key) ==
    IF \E i \in 1..Len(items) : items[i][1] = key
    THEN items[CHOOSE i \in 1..Len(items) : items[i][1] = key][2]
    ELSE ""

\* pd.DataFrame(data_rows).to_csv(csv_path, index=False)
ToCsv(data_rows) ==
    LET header == FrameColumns(<<>>, data_rows)
    IN  [header |-> header,
         lines |-> [r \in 1..Len(data_rows) |->
                       [c \in 1..Len(header) |-> DictGet(data_rows[r], header[c])]]]

\* str(row.get(name) or "").strip() on row r of pd.read_csv(csv_path): "" when
\* the file has no such column, "nan" when the field is empty (NaN is true),
\* else the field (the fields read here are never numeric text)
CsvGet(csv, r, name) ==
    IF ~HasKey(csv.header, name) THEN ""
    ELSE LET field == csv.lines[r][IndexOf(csv.header, name)]
         IN  IF field = "" THEN "nan" ELSE Strip(field)

RECURSIVE CsvAllocations(_, _, _, _)
CsvAllocations(csv, dtype, r, allocations) ==
    IF r > Len(csv.lines) THEN Return(allocations)
    ELSE IF dtype = "ipv4"
    THEN LET first_text == CsvGet(csv, r, "First")
             prefix == CsvGet(csv, r, "Prefix")
             last_text == CsvGet(csv, r, "Last")
             cidrs == ip_range_to_cidrs(first_text, last_text)
         IN  IF first_text = "" \/ prefix = ""
             THEN CsvAllocations(csv, dtype, r + 1, allocations)
             ELSE IF Lower(prefix) # "aggreg"
             THEN CsvAllocations(csv, dtype, r + 1,
                                 Append(allocations, first_text \o prefix))
             ELSE IF last_text = ""
             THEN CsvAllocations(csv, dtype, r + 1, allocations)
             ELSE IF cidrs.kind = "return"
             THEN CsvAllocations(csv, dtype, r + 1, allocations \o cidrs.value)
             ELSE IF cidrs.exc = "ValueError"
             THEN CsvAllocations(csv, dtype, r + 1, allocations)
             ELSE Raise(cidrs.exc)
    ELSE IF dtype = "ipv6"
    THEN LET ipv6_prefix == CsvGet(csv, r, "Prefix")
             length == CsvGet(csv, r, "Length")
         IN  IF ipv6_prefix # "" /\ length # ""
             THEN CsvAllocations(csv, dtype, r + 1,
                                 Append(allocations, ipv6_prefix \o "/" \o length))
             ELSE IF ipv6_prefix # ""
             THEN CsvAllocations(csv, dtype, r + 1, Append(allocations, ipv6_prefix))
             ELSE CsvAllocations(csv, dtype, r + 1, allocations)
    ELSE Return(allocations)

\* pd.read_csv raises EmptyDataError (a ValueError, no OSError) on a file
\* that has no column, which is what to_csv writes for rows without keys
_allocations_from_csv(csv, dtype) ==
    IF csv.header = <<>> THEN Raise("EmptyDataError")
    ELSE CsvAllocations(csv, dtype, 1, <<>>)

\* mutant: the append overlaps the one before it, the first new line lands
\* before the last line already in the file
_save_ranges_file_Overlapping(fs, dtype, allocations, unit) ==
    LET path == RangesPath(dtype)
        old == IF fs[path] = None THEN <<>> ELSE fs[path][1]
        new == [i \in 1..Len(allocations) |-> [text |-> allocations[i], unit |-> unit]]
    IN  [fs EXCEPT ![path] =
            Some(IF old = <<>> THEN new
                 ELSE SubSeq(old, 1, Len(old) - 1) \o <<Head(new)>>
                      \o <<old[Len(old)]>> \o Tail(new))]

\* mutant: the file is opened with "w", the lines it held are lost
_save_ranges_file_Truncating(fs, dtype, allocations, unit) ==
    [fs EXCEPT ![RangesPath(dtype)] =
        Some([i \in 1..Len(allocations) |-> [text |-> allocations[i], unit |-> unit]])]

\* open("a") and one write per allocation
_save_ranges_file(fs, dtype, allocations, unit) ==
    LET path == RangesPath(dtype)
        old == IF fs[path] = None THEN <<>> ELSE fs[path][1]
    IN  [fs EXCEPT ![path] =
            Some(old \o [i \in 1..Len(allocations) |->
                            [text |-> allocations[i], unit |-> unit]])]

\* mutant: the ranges file is left as it is
clear_ranges_file_Keep(fs, dtype) == fs

clear_ranges_file(fs, dtype) == [fs EXCEPT ![RangesPath(dtype)] = None]

\* mutant: save has no except OSError, the failed write raises
save_OSErrorEscapes(fs, result, unit, io) ==
    IF ~is_success(result) THEN [out |-> Return(FALSE), files |-> fs]
    ELSE IF io = "csv_fails" THEN [out |-> Raise("OSError"), files |-> fs]
    ELSE IF io = "csv_partial"
    THEN [out |-> Raise("OSError"),
          files |-> [fs EXCEPT ![CsvPath(result.country_code, result.data_type)] =
                        Some([ToCsv(result.data_rows[1]) EXCEPT !.lines = <<>>])]]
    ELSE LET dtype == result.data_type
             csv == ToCsv(result.data_rows[1])
             fs1 == [fs EXCEPT ![CsvPath(result.country_code, dtype)] = Some(csv)]
             given == IF result.allocations = None THEN <<>>
                      ELSE result.allocations[1]
             allocations == IF given = <<>> /\ dtype \in {"ipv4", "ipv6"}
                            THEN _allocations_from_csv(csv, dtype)
                            ELSE Return(given)
         IN  IF allocations.kind = "raise"
             THEN [out |-> Raise(allocations.exc), files |-> fs1]
             ELSE IF allocations.value = <<>>
             THEN [out |-> Return(TRUE), files |-> fs1]
             ELSE IF io = "ranges_fails"
             THEN [out |-> Raise("OSError"), files |-> fs1]
             ELSE IF io = "ranges_partial"
             THEN [out |-> Raise("OSError"),
                   files |-> _save_ranges_file(fs1, dtype,
                                               SubSeq(allocations.value, 1,
                                                      Len(allocations.value) - 1),
                                               unit)]
             ELSE [out |-> Return(TRUE),
                   files |-> _save_ranges_file(fs1, dtype, allocations.value, unit)]

\* mutant: a failed result leaves an empty CSV behind
save_FailedResultWritten(fs, result, unit, io) ==
    IF ~is_success(result)
    THEN [out |-> Return(FALSE),
          files |-> [fs EXCEPT ![CsvPath(result.country_code, result.data_type)] =
                        Some(ToCsv(<<>>))]]
    ELSE IF io = "csv_fails" THEN [out |-> Return(FALSE), files |-> fs]
    ELSE IF io = "csv_partial"
    THEN [out |-> Return(FALSE),
          files |-> [fs EXCEPT ![CsvPath(result.country_code, result.data_type)] =
                        Some([ToCsv(result.data_rows[1]) EXCEPT !.lines = <<>>])]]
    ELSE LET dtype == result.data_type
             csv == ToCsv(result.data_rows[1])
             fs1 == [fs EXCEPT ![CsvPath(result.country_code, dtype)] = Some(csv)]
             given == IF result.allocations = None THEN <<>>
                      ELSE result.allocations[1]
             allocations == IF given = <<>> /\ dtype \in {"ipv4", "ipv6"}
                            THEN _allocations_from_csv(csv, dtype)
                            ELSE Return(given)
         IN  IF allocations.kind = "raise"
             THEN [out |-> Raise(allocations.exc), files |-> fs1]
             ELSE IF allocations.value = <<>>
             THEN [out |-> Return(TRUE), files |-> fs1]
             ELSE IF io = "ranges_fails"
             THEN [out |-> Return(FALSE), files |-> fs1]
             ELSE IF io = "ranges_partial"
             THEN [out |-> Return(FALSE),
                   files |-> _save_ranges_file(fs1, dtype,
                                               SubSeq(allocations.value, 1,
                                                      Len(allocations.value) - 1),
                                               unit)]
             ELSE [out |-> Return(TRUE),
                   files |-> _save_ranges_file(fs1, dtype, allocations.value, unit)]

\* save(result) for the unit of work `unit`: out is what the call returns or
\* raises, files the directory it leaves.  io is "ok", or the write that
\* fails with OSError: "csv_fails" (the CSV is not opened), "csv_partial"
\* (the CSV is cut after its header line), "ranges_fails" (the CSV is
\* written, the ranges file is not opened) or "ranges_partial" (the CSV is
\* written, the last allocation is not appended).
save(fs, result, unit, io) ==
    IF ~is_success(result) THEN [out |-> Return(FALSE), files |-> fs]
    ELSE IF io = "csv_fails" THEN [out |-> Return(FALSE), files |-> fs]
    ELSE IF io = "csv_partial"
    THEN [out |-> Return(FALSE),
          files |-> [fs EXCEPT ![CsvPath(result.country_code, result.data_type)] =
                        Some([ToCsv(result.data_rows[1]) EXCEPT !.lines = <<>>])]]
    ELSE LET dtype == result.data_type
             csv == ToCsv(result.data_rows[1])
             fs1 == [fs EXCEPT ![CsvPath(result.country_code, dtype)] = Some(csv)]
             given == IF result.allocations = None THEN <<>>
                      ELSE result.allocations[1]
             allocations == IF given = <<>> /\ dtype \in {"ipv4", "ipv6"}
                            THEN _allocations_from_csv(csv, dtype)
                            ELSE Return(given)
         IN  IF allocations.kind = "raise"
             THEN [out |-> Raise(allocations.exc), files |-> fs1]
             ELSE IF allocations.value = <<>>
             THEN [out |-> Return(TRUE), files |-> fs1]
             ELSE IF io = "ranges_fails"
             THEN [out |-> Return(FALSE), files |-> fs1]
             ELSE IF io = "ranges_partial"
             THEN [out |-> Return(FALSE),
                   files |-> _save_ranges_file(fs1, dtype,
                                               SubSeq(allocations.value, 1,
                                                      Len(allocations.value) - 1),
                                               unit)]
             ELSE [out |-> Return(TRUE),
                   files |-> _save_ranges_file(fs1, dtype, allocations.value, unit)]

----------------------------------------------------------------------------
(* mikrotik.py: MikroTikExporter                                           *)
(*                                                                         *)
(* A router script is the sequence of its command lines.                   *)

RscPath(country, dtype) == country \o "_" \o dtype \o ".rsc"

\* MikroTikExporter._allocations_from_csv: the allocations of the rows
RECURSIVE RowAllocations(_, _, _)
RowAllocations(data_rows, dtype, allocations) ==
    IF data_rows = <<>> THEN Return(allocations)
    ELSE LET row == Head(data_rows)
             first_text == DictGet(row, "First")
             prefix == DictGet(row, "Prefix")
             last_text == DictGet(row, "Last")
             length == DictGet(row, "Length")
             cidrs == ip_range_to_cidrs(Strip(first_text), Strip(last_text))
         IN  IF dtype = "ipv4"
             THEN IF first_text = "" \/ prefix = ""
                  THEN RowAllocations(Tail(data_rows), dtype, allocations)
                  ELSE IF Lower(Strip(prefix)) # "aggreg"
                  THEN RowAllocations(Tail(data_rows), dtype,
                                      Append(allocations, Strip(first_text) \o Strip(prefix)))
                  ELSE IF last_text = ""
                  THEN RowAllocations(Tail(data_rows), dtype, allocations)
                  ELSE IF cidrs.kind = "return"
                  THEN RowAllocations(Tail(data_rows), dtype, allocations \o cidrs.value)
                  ELSE IF cidrs.exc = "ValueError"
                  THEN RowAllocations(Tail(data_rows), dtype, allocations)
                  ELSE Raise(cidrs.exc)
             ELSE IF dtype = "ipv6"
             THEN IF prefix # "" /\ length # ""
                  THEN RowAllocations(Tail(data_rows), dtype,
                                      Append(allocations, Strip(prefix) \o "/" \o length))
                  ELSE IF prefix # ""
                  THEN RowAllocations(Tail(data_rows), dtype,
                                      Append(allocations, Strip(prefix)))
                  ELSE RowAllocations(Tail(data_rows), dtype, allocations)
             ELSE RowAllocations(Tail(data_rows), dtype, allocations)

\* one command line of the router script
AddressListCommand(country, dtype, net) ==
    (IF dtype = "ipv6" THEN "/ipv6" ELSE "/ip")
    \o " firewall address-list add list=" \o Lower(country) \o "-" \o dtype
    \o " address=" \o net

\* export(result): out is what the call returns (None) or raises, files the
\* directory it leaves
export(fs, result) ==
    IF result.data_type = "asn" THEN [out |-> Return(None), files |-> fs]
    ELSE LET given == IF result.allocations = None THEN <<>>
                      ELSE result.allocations[1]
             rows == IF result.data_rows = None THEN <<>> ELSE result.data_rows[1]
             allocations == IF given = <<>> /\ rows # <<>>
                            THEN RowAllocations(rows, result.data_type, <<>>)
                            ELSE Return(given)
             path == RscPath(result.country_code, result.data_type)
             old == IF fs[path] = None THEN <<>> ELSE fs[path][1]
         IN  IF allocations.kind = "raise"
             THEN [out |-> Raise(allocations.exc), files |-> fs]
             ELSE IF allocations.value = <<>>
             THEN [out |-> Return(None), files |-> fs]
             ELSE [out |-> Return(None),
                   files |-> [fs EXCEPT ![path] =
                       Some(old \o [i \in 1..Len(allocations.value) |->
                               AddressListCommand(result.country_code, result.data_type,
                                                  allocations.value[i])])]]

----------------------------------------------------------------------------
(* cli.py: run_scraper                                                     *)
(*                                                                         *)
(* The units of work are numbered in submission order (for country in      *)
(* countries, for data_type in data_types).  futures[u] is the future of   *)
(* unit u: "pending" in the executor's queue, "running" in a worker,       *)
(* "finished" with the outcome of fetch, "yielded" once as_completed has   *)
(* handed it to the loop body.                                             *)

\* bound: worker counts 1..MaxWorkers are run
MaxWorkers == 2

NUnits == Len(countries) * Len(data_types)
UnitCountry(u) == countries[((u - 1) \div Len(data_types)) + 1]
UnitType(u) == data_types[((u - 1) % Len(data_types)) + 1]
Submitted == 1..Len(futures)
Running == {u \in Submitted : futures[u].state = "running"}

CountryLists == {<<"IR">>, <<"IR", "US">>}
DataTypeLists == {<<"asn">>, <<"ipv4">>, <<"ipv6">>, <<"asn", "ipv4">>}

\* the documents the run is served
RunRowSets(dtype) ==
    IF dtype = "asn"
    THEN { <<AsnRow("AS12880", "Allocated"), AsnRow("AS99999", "Reserved")>> }
    ELSE { <<>>,
           <<IpRow(AddressOf(dtype, 0), AddressOf(dtype, 3), "/1", "Allocated"),
             IpRow(AddressOf(dtype, 5), AddressOf(dtype, 6), "Aggreg", "Assigned")>>,
           <<IpRow(AddressOf(dtype, 4), AddressOf(dtype, 5), "/2", "Reserved")>>,
           <<IpRow(IPv4Str(2), IPv6Str(3), "Aggreg", "Reserved")>> }
RunResponses(dtype) ==
    {[kind |-> "ok", message |-> "", text |-> <<Table(dtype, trs)>>] :
        trs \in RunRowSets(dtype)}
    \cup {[kind |-> "RequestException", message |-> "Read timed out", text |-> <<>>]}

AllPaths ==
    {RangesPath(t) : t \in DataTypes}
    \cup {CsvPath(c, t) : c \in {"IR", "US"}, t \in DataTypes}
    \cup {RscPath(c, t) : c \in {"IR", "US"}, t \in DataTypes}
\* the output directory before the run: empty, or with the ranges files of
\* an earlier run
InitialFiles ==
    { [p \in AllPaths |-> None],
      [p \in AllPaths |->
          IF \E t \in DataTypes : p = RangesPath(t)
          THEN Some(<<[text |-> "stale", unit |-> 0]>>)
          ELSE None] }

\* main is not in use: run_scraper is called directly
MainIdle == argv = <<>> /\ main_out = Pending

Init ==
    /\ countries \in CountryLists
    /\ data_types \in DataTypeLists
    /\ max_workers \in 1..MaxWorkers
    /\ pc = "clear"
    /\ futures = <<>>
    /\ stats = ScraperStats
    /\ files \in InitialFiles
    /\ save_calls = <<>>
    /\ run_out = Pending
    /\ calls = <<>>
    /\ MainIdle
    /\ RangeIdle
    /\ ClassifyIdle
    /\ FetchIdle

\* mutant: the ranges file of every data type is removed
ClearAll_EveryType(fs, dtypes) ==
    [p \in DOMAIN fs |->
        IF \E t \in DataTypes : p = RangesPath(t) THEN None ELSE fs[p]]

RECURSIVE ClearAll(_, _)
ClearAll(fs, dtypes) ==
    IF dtypes = <<>> THEN fs
    ELSE ClearAll(clear_ranges_file(fs, Head(dtypes)), Tail(dtypes))

\* for data_type in data_types: storage.clear_ranges_file(data_type), then
\* ThreadPoolExecutor(max_workers), which raises ValueError unless
\* max_workers > 0
ClearRangesFiles ==
    /\ pc = "clear"
    /\ files' = ClearAll(files, data_types)
    /\ IF max_workers > 0
       THEN pc' = "submit" /\ run_out' = run_out
       ELSE pc' = "raised" /\ run_out' = Raise("ValueError")
    /\ UNCHANGED <<countries, data_types, max_workers, futures, stats, save_calls>>
    /\ UNCHANGED <<range_vars, classify_vars, fetch_vars, main_vars, stats_vars>>

\* executor.submit(fetcher.fetch, country, data_type), one unit at a time
Submit ==
    /\ pc = "submit"
    /\ futures' = Append(futures, [state |-> "pending", response |-> <<>>,
                                   outcome |-> Pending, requests |-> 0])
    /\ pc' = IF Len(futures') = NUnits THEN "collect" ELSE "submit"
    /\ UNCHANGED <<countries, data_types, max_workers, stats, files, save_calls, run_out>>
    /\ UNCHANGED <<range_vars, classify_vars, fetch_vars, main_vars, stats_vars>>

\* mutant: fetch issues its request again after the first attempt
IssueRequest_Retried(fut) ==
    [fut EXCEPT !.state = "running", !.requests = @ + 2]

\* fetch runs in a worker: its one requests.get(url, headers, timeout) is sent
IssueRequest(fut) ==
    [fut EXCEPT !.state = "running", !.requests = @ + 1]

\* mutant: a queued unit starts whether or not a worker is free
StartFetch_Unbounded(u) ==
    /\ u \in Submitted
    /\ futures[u].state = "pending"
    /\ \A v \in Submitted : v < u => futures[v].state # "pending"
    /\ futures' = [futures EXCEPT ![u] = IssueRequest(futures[u])]
    /\ UNCHANGED <<countries, data_types, max_workers, pc, stats, files, save_calls,
                   run_out>>
    /\ UNCHANGED <<range_vars, classify_vars, fetch_vars, main_vars, stats_vars>>

\* a free worker takes the oldest queued unit and issues its request
StartFetch(u) ==
    /\ u \in Submitted
    /\ futures[u].state = "pending"
    /\ \A v \in Submitted : v < u => futures[v].state # "pending"
    /\ Cardinality(Running) < max_workers
    /\ futures' = [futures EXCEPT ![u] = IssueRequest(futures[u])]
    /\ UNCHANGED <<countries, data_types, max_workers, pc, stats, files, save_calls,
                   run_out>>
    /\ UNCHANGED <<range_vars, classify_vars, fetch_vars, main_vars, stats_vars>>

\* the request of unit u ends as resp and fetch returns (or raises)
FinishFetch(u, resp) ==
    /\ u \in Submitted
    /\ futures[u].state = "running"
    /\ futures' = [futures EXCEPT ![u] =
                      [state |-> "finished", response |-> resp,
                       outcome |-> fetch(UnitCountry(u), UnitType(u), resp),
                       requests |-> futures[u].requests]]
    /\ UNCHANGED <<countries, data_types, max_workers, pc, stats, files, save_calls,
                   run_out>>
    /\ UNCHANGED <<range_vars, classify_vars, fetch_vars, main_vars, stats_vars>>

\* mutant: the unit is recorded as a failure when save returns False
Collect_SaveChecked(u, io) ==
    /\ pc = "collect"
    /\ u \in Submitted
    /\ futures[u].state = "finished"
    /\ futures' = [futures EXCEPT ![u].state = "yielded"]
    /\ LET outcome == futures[u].outcome
           result == outcome.value
           saved == save(files, result, u, io)
       IN  IF outcome.kind = "raise"
           THEN /\ pc' = "shutdown"
                /\ run_out' = Raise(outcome.exc)
                /\ UNCHANGED <<stats, files, save_calls>>
           ELSE IF is_success(result)
           THEN /\ files' = saved.files
                /\ save_calls' = Append(save_calls,
                                        [unit |-> u, io |-> io, out |-> saved.out])
                /\ IF saved.out.kind = "raise"
                   THEN /\ pc' = "shutdown"
                        /\ run_out' = Raise(saved.out.exc)
                        /\ stats' = stats
                   ELSE /\ stats' = IF saved.out = Return(TRUE)
                                     THEN record_success(stats, result.country_code)
                                     ELSE record_failure(stats, result.country_code)
                        /\ UNCHANGED <<pc, run_out>>
           ELSE /\ stats' = record_failure(stats, result.country_code)
                /\ UNCHANGED <<pc, files, save_calls, run_out>>
    /\ UNCHANGED <<countries, data_types, max_workers>>
    /\ UNCHANGED <<range_vars, classify_vars, fetch_vars, main_vars, stats_vars>>

\* one turn of "for future in as_completed(futures)" on the finished unit u.
\* An exception of future.result() or of storage.save leaves the loop and
\* enters the executor's __exit__ ("shutdown").
Collect(u, io) ==
    /\ pc = "collect"
    /\ u \in Submitted
    /\ futures[u].state = "finished"
    /\ futures' = [futures EXCEPT ![u].state = "yielded"]
    /\ LET outcome == futures[u].outcome
           result == outcome.value
           saved == save(files, result, u, io)
       IN  IF outcome.kind = "raise"
           THEN /\ pc' = "shutdown"
                /\ run_out' = Raise(outcome.exc)
                /\ UNCHANGED <<stats, files, save_calls>>
           ELSE IF is_success(result)
           THEN /\ files' = saved.files
                /\ save_calls' = Append(save_calls,
                                        [unit |-> u, io |-> io, out |-> saved.out])
                /\ IF saved.out.kind = "raise"
                   THEN /\ pc' = "shutdown"
                        /\ run_out' = Raise(saved.out.exc)
                        /\ stats' = stats
                   ELSE /\ stats' = record_success(stats, result.country_code)
                        /\ UNCHANGED <<pc, run_out>>
           ELSE /\ stats' = record_failure(stats, result.country_code)
                /\ UNCHANGED <<pc, files, save_calls, run_out>>
    /\ UNCHANGED <<countries, data_types, max_workers>>
    /\ UNCHANGED <<range_vars, classify_vars, fetch_vars, main_vars, stats_vars>>

\* ThreadPoolExecutor.__exit__ with an exception under way: shutdown(wait=True)
\* returns once the workers have run every submitted unit, and the exception
\* leaves run_scraper
ExitExecutor ==
    /\ pc = "shutdown"
    /\ \A u \in Submitted : futures[u].state \in {"finished", "yielded"}
    /\ pc' = "raised"
    /\ UNCHANGED <<countries, data_types, max_workers, futures, stats, files,
                   save_calls, run_out>>
    /\ UNCHANGED <<range_vars, classify_vars, fetch_vars, main_vars, stats_vars>>

\* as_completed is exhausted, the executor is shut down: return stats
ReturnStats ==
    /\ pc = "collect"
    /\ \A u \in 1..NUnits : futures[u].state = "yielded"
    /\ pc' = "returned"
    /\ run_out' = Return(stats)
    /\ UNCHANGED <<countries, data_types, max_workers, futures, stats, files, save_calls>>
    /\ UNCHANGED <<range_vars, classify_vars, fetch_vars, main_vars, stats_vars>>

Next ==
    \/ ClearRangesFiles
    \/ Submit
    \/ \E u \in 1..NUnits : StartFetch(u)
    \/ \E u \in 1..NUnits : \E resp \in RunResponses(UnitType(u)) : FinishFetch(u, resp)
    \/ \E u \in 1..NUnits : Collect(u, "ok")
    \/ ExitExecutor
    \/ ReturnStats

Spec == Init /\ [][Next]_vars

\* the same run on a disk whose writes may fail with OSError
IoOutcomes == {"ok", "csv_fails", "ranges_fails"}

NextFaults ==
    \/ ClearRangesFiles
    \/ Submit
    \/ \E u \in 1..NUnits : StartFetch(u)
    \/ \E u \in 1..NUnits : \E resp \in RunResponses(UnitType(u)) : FinishFetch(u, resp)
    \/ \E u \in 1..NUnits : \E io \in IoOutcomes : Collect(u, io)
    \/ ExitExecutor
    \/ ReturnStats

SpecFaults == Init /\ [][NextFaults]_vars

----------------------------------------------------------------------------
(* One call of save on the result of one fetch                             *)

\* every way a write of save can end, a write cut midway included
SaveOutcomes == IoOutcomes \cup {"csv_partial", "ranges_partial"}

\* the output directory before the call: as before a run, or with the files
\* of an earlier save
SaveFiles ==
    InitialFiles \cup
    { [p \in AllPaths |->
          IF \E t \in DataTypes : p = RangesPath(t)
          THEN Some(<<[text |-> "stale", unit |-> 0]>>)
          ELSE IF \E c \in {"IR", "US"}, t \in DataTypes : p = CsvPath(c, t)
          THEN Some([header |-> <<"ASN">>, lines |-> <<<<"AS1">>>>])
          ELSE None] }

InitSave ==
    /\ country_code \in {"IR", "US"}
    /\ fetch_type \in BaseUrlTypes
    /\ response \in Responses(fetch_type)
    /\ fetch_out = Pending
    /\ files \in SaveFiles
    /\ save_calls = <<>>
    /\ countries = <<>>
    /\ data_types = <<>>
    /\ max_workers = 0
    /\ pc = "idle"
    /\ futures = <<>>
    /\ stats = <<>>
    /\ run_out = <<>>
    /\ argv = <<>>
    /\ main_out = <<>>
    /\ calls = <<>>
    /\ RangeIdle
    /\ ClassifyIdle

\* storage.save(result) on what fetch returned
CallSave(io) ==
    /\ fetch_out.kind = "return"
    /\ save_calls = <<>>
    /\ LET saved == save(files, fetch_out.value, 1, io)
       IN  /\ files' = saved.files
           /\ save_calls' = <<[unit |-> 1, io |-> io, out |-> saved.out]>>
    /\ UNCHANGED <<countries, data_types, max_workers, pc, futures, stats, run_out>>
    /\ UNCHANGED <<range_vars, classify_vars, fetch_vars, main_vars, stats_vars>>

NextSave ==
    \/ CallFetch
    \/ \E io \in SaveOutcomes : CallSave(io)

SpecSave == InitSave /\ [][NextSave]_vars

----------------------------------------------------------------------------
(* cli.py: validate_country_codes and main                                 *)

IsAlpha(text) ==
    /\ text # ""
    /\ \A i \in 1..Len(text) :
          \E k \in 1..Len(UpperLetters) :
              SubSeq(text, i, i) \in {SubSeq(UpperLetters, k, k), SubSeq(LowerLetters, k, k)}

\* mutant: the code is taken as typed, neither trimmed nor uppercased
NormalizeCode_AsTyped(code) == code

NormalizeCode(code) == Upper(Strip(code))

RECURSIVE ValidateLoop(_, _)
ValidateLoop(codes, validated) ==
    IF codes = <<>> THEN Return(validated)
    ELSE LET normalized == NormalizeCode(Head(codes))
         IN  IF Len(normalized) # 2 \/ ~IsAlpha(normalized)
             THEN Raise("ValueError")
             ELSE ValidateLoop(Tail(codes), Append(validated, normalized))

validate_country_codes(codes) == ValidateLoop(codes, <<>>)

\* the command lines main is run on: COUNTRY..., --data-type, --max-workers
ArgvCountries ==
    { <<" ir">>, <<"ir", "US ">>, <<"IR", "usa">>, <<"1r">>, <<"US", "">> }
ArgvDataTypes == {"asn", "ipv4", "all"}
Argvs ==
    {a \in [countries : ArgvCountries, data_type : ArgvDataTypes,
            max_workers : 0..MaxWorkers] :
        Len(a.countries) = 1 \/ a.data_type # "all"}

InitMain ==
    /\ argv \in Argvs
    /\ main_out = Pending
    /\ pc = "main"
    /\ countries = <<>>
    /\ data_types = <<>>
    /\ max_workers = 0
    /\ futures = <<>>
    /\ stats = ScraperStats
    /\ files \in InitialFiles
    /\ save_calls = <<>>
    /\ run_out = Pending
    /\ calls = <<>>
    /\ RangeIdle
    /\ ClassifyIdle
    /\ FetchIdle

\* main up to the call of run_scraper
MainValidate ==
    /\ pc = "main"
    /\ LET validated == validate_country_codes(argv.countries)
       IN  IF validated.kind = "raise"
           THEN /\ main_out' = Return(1)
                /\ pc' = "exited"
                /\ UNCHANGED <<countries, data_types, max_workers>>
           ELSE /\ countries' = validated.value
                /\ data_types' = IF argv.data_type = "all" THEN VALID_DATA_TYPES
                                 ELSE <<argv.data_type>>
                /\ max_workers' = argv.max_workers
                /\ pc' = "clear"
                /\ main_out' = main_out
    /\ UNCHANGED <<argv, futures, stats, files, save_calls, run_out>>
    /\ UNCHANGED <<range_vars, classify_vars, fetch_vars, stats_vars>>

\* return 0 if stats.failed_requests == 0 else 1
MainReturn ==
    /\ pc = "returned"
    /\ main_out' = Return(IF run_out.value.failed_requests = 0 THEN 0 ELSE 1)
    /\ pc' = "exited"
    /\ UNCHANGED <<argv, countries, data_types, max_workers, futures, stats, files,
                   save_calls, run_out>>
    /\ UNCHANGED <<range_vars, classify_vars, fetch_vars, stats_vars>>

\* except KeyboardInterrupt: return 130; any other exception leaves main
MainExcept ==
    /\ pc = "raised"
    /\ main_out' = IF run_out.exc = "KeyboardInterrupt" THEN Return(130)
                   ELSE Raise(run_out.exc)
    /\ pc' = "exited"
    /\ UNCHANGED <<argv, countries, data_types, max_workers, futures, stats, files,
                   save_calls, run_out>>
    /\ UNCHANGED <<range_vars, classify_vars, fetch_vars, stats_vars>>

\* the user interrupts: KeyboardInterrupt is raised in the main thread, which
\* is in run_scraper; inside the with block the exception passes through
\* the executor's __exit__
Interrupt ==
    /\ pc \in {"clear", "submit", "collect"}
    /\ run_out' = Raise("KeyboardInterrupt")
    /\ pc' = IF pc = "clear" THEN "raised" ELSE "shutdown"
    /\ UNCHANGED <<countries, data_types, max_workers, futures, stats, files, save_calls>>
    /\ UNCHANGED <<range_vars, classify_vars, fetch_vars, main_vars, stats_vars>>

NextMain ==
    \/ MainValidate
    \/ ClearRangesFiles
    \/ Submit
    \/ \E u \in 1..NUnits : StartFetch(u)
    \/ \E u \in 1..NUnits : \E resp \in RunResponses(UnitType(u)) : FinishFetch(u, resp)
    \/ \E u \in 1..NUnits : Collect(u, "ok")
    \/ Interrupt
    \/ ExitExecutor
    \/ ReturnStats
    \/ MainReturn
    \/ MainExcept

SpecMain == InitMain /\ [][NextMain]_vars

----------------------------------------------------------------------------
(* Properties of ip_range_to_cidrs *)

AllNetworks ==
    [version : {4}, network_address : 0..AllOnes(4), prefixlen : 0..V4Bits]
    \cup [version : {6}, network_address : 0..AllOnes(6), prefixlen : 0..V6Bits]
IsCidrText(text) == \E net \in AllNetworks : NetworkStr(net) = text
BlockOf(text) == CHOOSE net \in AllNetworks : NetworkStr(net) = text
BlockSize(net) == Pow2(MaxPrefixLen(net.version) - net.prefixlen)
BlockLast(net) == net.network_address + BlockSize(net) - 1

RangeDone == range_out.kind # "pending"
FirstParsed == ip_address(Strip(first_ip))
LastParsed == ip_address(Strip(last_ip))
\* both arguments are addresses, of one family, and first <= last
RangeValid ==
    /\ FirstParsed.kind = "return"
    /\ LastParsed.kind = "return"
    /\ FirstParsed.value.version = LastParsed.value.version
    /\ FirstParsed.value.ip <= LastParsed.value.ip
RangeFirst == FirstParsed.value.ip
RangeLast == LastParsed.value.ip
RangeVersion == FirstParsed.value.version
RangeBlocks == [i \in 1..Len(range_out.value) |-> BlockOf(range_out.value[i])]

\* C1: for valid first <= last of one family the returned blocks are aligned
\* power-of-two intervals inside [first, last], in strictly ascending order
\* and disjoint, and their union is exactly [first, last].
C1_ExactCover ==
    (RangeDone /\ RangeValid) =>
        /\ range_out.kind = "return"
        /\ \A i \in 1..Len(range_out.value) : IsCidrText(range_out.value[i])
        /\ \A i \in 1..Len(range_out.value) :
              /\ RangeBlocks[i].version = RangeVersion
              /\ RangeBlocks[i].network_address % BlockSize(RangeBlocks[i]) = 0
              /\ RangeBlocks[i].network_address >= RangeFirst
              /\ BlockLast(RangeBlocks[i]) <= RangeLast
        /\ \A i \in 1..(Len(range_out.value) - 1) :
              BlockLast(RangeBlocks[i]) < RangeBlocks[i + 1].network_address
        /\ \A a \in RangeFirst..RangeLast :
              \E i \in 1..Len(range_out.value) :
                  /\ RangeBlocks[i].network_address <= a
                  /\ a <= BlockLast(RangeBlocks[i])

C1_Witness ==
    /\ RangeDone /\ RangeValid
    /\ range_out.kind = "return"
    /\ Len(range_out.value) >= 3
    /\ RangeLast = AllOnes(RangeVersion) - 1

\* C2: no two consecutive returned blocks have equal size and together form
\* one aligned block of twice that size.
C2_NoMergeablePair ==
    (RangeDone /\ RangeValid /\ range_out.kind = "return") =>
        \A i \in 1..(Len(range_out.value) - 1) :
            ~ /\ IsCidrText(range_out.value[i])
              /\ IsCidrText(range_out.value[i + 1])
              /\ BlockSize(RangeBlocks[i]) = BlockSize(RangeBlocks[i + 1])
              /\ RangeBlocks[i + 1].network_address = BlockLast(RangeBlocks[i]) + 1
              /\ RangeBlocks[i].network_address % (2 * BlockSize(RangeBlocks[i])) = 0

C2_Witness ==
    /\ RangeDone /\ RangeValid
    /\ range_out.kind = "return"
    /\ Len(range_out.value) >= 2
    /\ \E i \in 1..(Len(range_out.value) - 1) :
          BlockSize(RangeBlocks[i]) = BlockSize(RangeBlocks[i + 1])

RangeIsOneBlock ==
    /\ \E k \in 0..MaxPrefixLen(RangeVersion) : RangeLast - RangeFirst + 1 = Pow2(k)
    /\ RangeFirst % (RangeLast - RangeFirst + 1) = 0

\* C3: a range that is exactly one aligned power-of-two block yields exactly
\* one block, and (x, x) yields the one block x/<maximum prefix length>.
C3_SingleBlock ==
    (RangeDone /\ RangeValid) =>
        /\ RangeIsOneBlock =>
              (range_out.kind = "return" /\ Len(range_out.value) = 1)
        /\ RangeFirst = RangeLast =>
              range_out = Return(<<AddressStr(RangeVersion, RangeFirst) \o "/"
                                   \o ToString(MaxPrefixLen(RangeVersion))>>)

C3_Witness ==
    /\ RangeDone /\ RangeValid
    /\ RangeIsOneBlock
    /\ RangeFirst = 0
    /\ RangeLast = AllOnes(RangeVersion)
    /\ Len(range_out.value) = 1

\* C4: an unparsable argument, two addresses of different families, and
\* first > last all fail with ValueError.
C4_InvalidRangeIsValueError ==
    (RangeDone /\ ~RangeValid) => range_out = Raise("ValueError")

----------------------------------------------------------------------------
(* Properties of _extract_allocation *)

Classified == extracted.kind # "pending"

\* C5: for type asn the result is [columns[3]] exactly when there are at
\* least 7 columns and columns[6] is "Allocated"; otherwise None is returned
\* and nothing is raised.
C5_AsnAllocation ==
    (Classified /\ data_type = "asn") =>
        IF Len(columns) >= 7 /\ columns[7] = "Allocated"
        THEN extracted = Return(Some(<<columns[4]>>))
        ELSE extracted = Return(None)

C5_Witness ==
    /\ Classified /\ data_type = "asn"
    /\ Len(columns) = 9
    /\ columns[7] = "Allocated"
    /\ extracted = Return(Some(<<"AS12880">>))

IpRowStatusOk == Len(columns) >= 9 /\ columns[9] \in {"Allocated", "Assigned"}

\* C6: for type ipv4 or ipv6 the result is None when there are fewer than 9
\* columns or columns[8] is neither "Allocated" nor "Assigned"; otherwise it
\* is the one allocation columns[3] + columns[5] when columns[5] is not
\* "aggreg" in any letter case, and the decomposition of the range
\* [columns[3], columns[4]] when it is and the range can be decomposed.
C6_IpAllocation ==
    (Classified /\ data_type \in {"ipv4", "ipv6"}) =>
        /\ ~IpRowStatusOk => extracted = Return(None)
        /\ (IpRowStatusOk /\ Lower(columns[6]) # "aggreg") =>
              extracted = Return(Some(<<columns[4] \o columns[6]>>))
        /\ (/\ IpRowStatusOk
            /\ Lower(columns[6]) = "aggreg"
            /\ ip_range_to_cidrs(columns[4], columns[5]).kind = "return") =>
              extracted = Return(Some(ip_range_to_cidrs(columns[4], columns[5]).value))

C6_Witness ==
    /\ Classified /\ data_type = "ipv4"
    /\ IpRowStatusOk
    /\ columns[6] = "AGGREG"
    /\ extracted.kind = "return"
    /\ extracted.value # None
    /\ Len(extracted.value[1]) = 4

----------------------------------------------------------------------------
(* Properties of DataFetcher.fetch *)

Fetched == fetch_out.kind # "pending"
RowsPresent(result) == result.data_rows # None
ErrorPresent(result) == result.error # None
StartsWith(text, prefix) ==
    Len(text) >= Len(prefix) /\ SubSeq(text, 1, Len(prefix)) = prefix

\* C7: a result returned by fetch has either rows and no error, or an error
\* and no rows, never both and never neither; is_success is true exactly in
\* the first case.
C7_SuccessXorError ==
    (Fetched /\ fetch_out.kind = "return") =>
        LET result == fetch_out.value
        IN  /\ \/ RowsPresent(result) /\ ~ErrorPresent(result)
               \/ ~RowsPresent(result) /\ ErrorPresent(result)
            /\ is_success(result) <=> (RowsPresent(result) /\ ~ErrorPresent(result))
            /\ ~is_success(result) <=> (~RowsPresent(result) /\ ErrorPresent(result))

C7_Witness ==
    /\ Fetched /\ fetch_out.kind = "return"
    /\ response.kind = "ok"
    /\ FindTable(response.text, TableClass(fetch_type)) = None
    /\ ~is_success(fetch_out.value)

\* C8: fetch always returns a result and raises nothing: "Request error" for
\* a transport failure, "No data table found for <TYPE> in <country>" for a
\* document without the table, "Unexpected error" for any other exception
\* of the request or of parsing, and otherwise a success with the parsed
\* rows and allocations.
C8_FetchAlwaysReturns ==
    Fetched =>
        /\ fetch_out.kind = "return"
        /\ fetch_out.value.country_code = country_code
        /\ fetch_out.value.data_type = fetch_type
        /\ LET result == fetch_out.value
               parsed == _parse_response(response.text, fetch_type)
           IN  CASE response.kind = "RequestException" ->
                      /\ ~is_success(result)
                      /\ StartsWith(result.error[1], "Request error")
                 [] response.kind = "Exception" ->
                      /\ ~is_success(result)
                      /\ StartsWith(result.error[1], "Unexpected error")
                 [] response.kind = "ok" /\ parsed.kind = "raise" ->
                      /\ ~is_success(result)
                      /\ StartsWith(result.error[1], "Unexpected error")
                 [] response.kind = "ok" /\ parsed.kind = "return"
                        /\ parsed.value[1] = None ->
                      /\ ~is_success(result)
                      /\ result.error = Some("No data table found for "
                                             \o Upper(fetch_type) \o " in " \o country_code)
                 [] OTHER ->
                      /\ is_success(result)
                      /\ result.data_rows = parsed.value[1]
                      /\ result.allocations = parsed.value[2]
                      /\ result.allocations # None

C8_Witness ==
    /\ Fetched
    /\ response.kind = "ok"
    /\ _parse_response(response.text, fetch_type).kind = "raise"
    /\ fetch_out.kind = "return"
    /\ fetch_out.value.error = Some("Unexpected error: TypeError")

----------------------------------------------------------------------------
(* Properties of run_scraper *)

RunReturned == pc = "returned"
\* the run is over, by return or by an exception, and no worker is left
RunOver ==
    /\ pc \in {"returned", "raised"}
    /\ Len(futures) = NUnits
    /\ \A u \in 1..NUnits : futures[u].state \in {"finished", "yielded"}
FetchDone(u) == u \in Submitted /\ futures[u].state \in {"finished", "yielded"}
Succeeded(u) ==
    FetchDone(u) /\ futures[u].outcome.kind = "return"
                 /\ is_success(futures[u].outcome.value)
Failed(u) ==
    FetchDone(u) /\ futures[u].outcome.kind = "return"
                 /\ ~is_success(futures[u].outcome.value)
SaveCallsOf(u) == {i \in 1..Len(save_calls) : save_calls[i].unit = u}
RangesLines(dtype) ==
    IF files[RangesPath(dtype)] = None THEN <<>> ELSE files[RangesPath(dtype)][1]
\* the texts of the lines of the ranges file of dtype that unit u wrote
RECURSIVE TextsOf(_, _)
TextsOf(lines, u) ==
    IF lines = <<>> THEN <<>>
    ELSE IF Head(lines).unit = u THEN <<Head(lines).text>> \o TextsOf(Tail(lines), u)
    ELSE TextsOf(Tail(lines), u)

\* C9: when run_scraper returns, total_requests is the number of units,
\* successful_requests the number of units whose fetch succeeded,
\* failed_requests the number whose fetch failed, countries_processed the
\* set of the requested codes, and save was called exactly once for each
\* successful result and never for a failed one.
C9_StatsCountUnits ==
    RunReturned =>
        /\ stats.total_requests = Len(countries) * Len(data_types)
        /\ stats.successful_requests = Cardinality({u \in 1..NUnits : Succeeded(u)})
        /\ stats.failed_requests = Cardinality({u \in 1..NUnits : Failed(u)})
        /\ stats.countries_processed = {countries[i] : i \in 1..Len(countries)}
        /\ \A u \in 1..NUnits :
              Cardinality(SaveCallsOf(u)) = IF Succeeded(u) THEN 1 ELSE 0

C9_Witness ==
    /\ RunReturned
    /\ NUnits = 4
    /\ \E u \in 1..NUnits : Failed(u)
    /\ Len(save_calls) >= 2
    /\ save_calls[1].unit > save_calls[2].unit

\* C10: whichever units fail, every other unit of the run is still fetched,
\* saved and recorded; after the run the ranges file of a type holds the
\* allocations of every successful unit of that type that has allocations,
\* and no line of a failed unit.
C10_RunLevelIsolation ==
    RunOver =>
        /\ \A u \in 1..NUnits :
              /\ futures[u].state = "yielded"
              /\ Succeeded(u) => Cardinality(SaveCallsOf(u)) = 1
        /\ stats.successful_requests = Cardinality({u \in 1..NUnits : Succeeded(u)})
        /\ stats.failed_requests = Cardinality({u \in 1..NUnits : Failed(u)})
        /\ \A u \in 1..NUnits :
              (Succeeded(u) /\ has_allocations(futures[u].outcome.value)) =>
                  TextsOf(RangesLines(UnitType(u)), u)
                      = futures[u].outcome.value.allocations[1]
        /\ \A i \in 1..Len(data_types) :
              \A k \in 1..Len(RangesLines(data_types[i])) :
                  ~Failed(RangesLines(data_types[i])[k].unit)

\* C11: while the ranges files are not yet cleared nothing is submitted and
\* nothing is saved; from then on the ranges file of a requested type holds
\* no line of an earlier run, so when the run returns it holds only lines
\* appended by this run's units.
Requested(dtype) == \E i \in 1..Len(data_types) : data_types[i] = dtype
StaleLines(dtype) ==
    {k \in 1..Len(RangesLines(dtype)) : RangesLines(dtype)[k].unit = 0}
C11_ClearedBeforeWork ==
    /\ pc = "clear" => futures = <<>> /\ save_calls = <<>>
    /\ pc \notin {"main", "clear"} =>
          \A t \in DataTypes : Requested(t) =>
              /\ StaleLines(t) = {}
              /\ \A k \in 1..Len(RangesLines(t)) :
                    /\ RangesLines(t)[k].unit \in 1..NUnits
                    /\ UnitType(RangesLines(t)[k].unit) = t

\* the directory held the files of an earlier run, and this run has
\* returned with lines of its own in a requested file
C11_Witness ==
    /\ RunReturned
    /\ \E t \in DataTypes : ~Requested(t) /\ StaleLines(t) # {}
    /\ \E t \in DataTypes : Requested(t) /\ Len(RangesLines(t)) >= 2

----------------------------------------------------------------------------
(* Properties of main and of the run as a whole *)

Interrupted == run_out.kind = "raise" /\ run_out.exc = "KeyboardInterrupt"
ArgsValid == validate_country_codes(argv.countries).kind = "return"

\* the executor was created: the run got as far as its units of work
ExecutorCreated == max_workers > 0 /\ pc \notin {"main", "clear"}

\* C12: once the units of work are under way, the only exception that leaves
\* run_scraper is the user's interrupt, and no exception leaves main: a
\* failure of a unit's request, parse or export never does.
C12_NoExceptionCrosses ==
    ExecutorCreated =>
        /\ run_out.kind = "raise" => run_out.exc = "KeyboardInterrupt"
        /\ main_out.kind # "raise"

\* C13: main returns a status: 1 when a country code fails validation, 130
\* when the user interrupted the run, and otherwise 0 exactly when every
\* unit of work was submitted and succeeded, 1 when a unit failed.
MainOver == pc = "exited"
AllSucceeded == Len(futures) = NUnits /\ \A u \in 1..NUnits : Succeeded(u)
C13_ExitStatus ==
    (MainOver /\ argv.max_workers > 0) =>
        /\ main_out.kind = "return"
        /\ ~ArgsValid => main_out.value = 1
        /\ (ArgsValid /\ Interrupted) => main_out.value = 130
        /\ (ArgsValid /\ ~Interrupted) =>
              /\ main_out.value = 0 <=> AllSucceeded
              /\ (\E u \in 1..NUnits : Failed(u)) => main_out.value = 1

\* C14: when some code is not two letters once trimmed, main returns 1
\* without calling run_scraper: nothing is submitted, saved or cleared and
\* no file changes; when every code is, run_scraper gets the codes trimmed
\* and uppercased, in input order.
CodeOk(code) == Len(Strip(code)) = 2 /\ IsAlpha(Strip(code))
AllCodesOk == \A i \in 1..Len(argv.countries) : CodeOk(argv.countries[i])
C14_ValidationBeforeWork ==
    /\ []((~AllCodesOk /\ pc # "main") =>
            /\ pc = "exited"
            /\ main_out = Return(1)
            /\ run_out = Pending
            /\ futures = <<>>
            /\ save_calls = <<>>)
    /\ []((AllCodesOk /\ pc # "main") =>
            countries = [i \in 1..Len(argv.countries) |->
                            Upper(Strip(argv.countries[i]))])
    /\ [][~AllCodesOk => files' = files]_vars

\* a command line whose second code is bad, on a directory with old ranges
\* files: main is over and the files are still there
C14_Witness ==
    /\ MainOver
    /\ argv.countries = <<"IR", "usa">>
    /\ main_out = Return(1)
    /\ \A t \in DataTypes : StaleLines(t) # {}

\* C15: files and statistics change only in a turn of the main thread's
\* loop (or in the clear loop), never in a worker's step, and one result at
\* a time: the lines a unit appended to a ranges file are contiguous, and
\* the counters count every unit the loop has handled.
Yielded == {u \in Submitted : futures[u].state = "yielded"}
LinesContiguous(lines) ==
    \A i \in 1..Len(lines) : \A k \in i..Len(lines) :
        lines[i].unit = lines[k].unit =>
            \A j \in i..k : lines[j].unit = lines[i].unit
C15_ExportSerialized ==
    /\ [](\A t \in DataTypes : LinesContiguous(RangesLines(t)))
    /\ [](pc \in {"collect", "returned"} =>
            /\ stats.total_requests = Cardinality(Yielded)
            /\ stats.successful_requests = Cardinality({u \in Yielded : Succeeded(u)})
            /\ stats.failed_requests = Cardinality({u \in Yielded : Failed(u)}))
    /\ [][(files' # files \/ stats' # stats \/ save_calls' # save_calls) =>
            \/ pc = "clear"
            \/ /\ pc = "collect"
               /\ \E u \in Submitted :
                     /\ futures[u].state = "finished"
                     /\ futures' = [futures EXCEPT ![u].state = "yielded"]
                     /\ Len(save_calls') <= Len(save_calls) + 1]_vars

\* two units of one type finished in the reverse of their submission order
\* and each appended several lines to the type's ranges file
C15_Witness ==
    /\ RunReturned
    /\ Len(RangesLines("ipv4")) >= 4
    /\ RangesLines("ipv4")[1].unit = 2
    /\ RangesLines("ipv4")[Len(RangesLines("ipv4"))].unit = 1

\* C16: once the user has interrupted the run, no queued unit of work is
\* started any more, and a request in flight is left to finish.
C16_InterruptStopsWork ==
    [][Interrupted =>
          \A u \in Submitted :
              /\ futures[u].state = "pending" => futures'[u].state = "pending"
              /\ futures[u].state = "running" =>
                    futures'[u].state \in {"running", "finished"}]_vars

\* C17: a save whose CSV write, or whose append to the ranges file, fails
\* with OSError returns False; the loop goes on with the remaining units,
\* the unit is still recorded a success and no other counter moves.
WriteFailed(call) ==
    \/ call.io = "csv_fails"
    \/ /\ call.io = "ranges_fails"
       /\ has_allocations(futures[call.unit].outcome.value)
LastCall(seq) == seq[Len(seq)]
C17_FailedWriteIsLocal ==
    /\ [](\A i \in 1..Len(save_calls) :
             WriteFailed(save_calls[i]) => save_calls[i].out = Return(FALSE))
    /\ [][(Len(save_calls') > Len(save_calls) /\ WriteFailed(LastCall(save_calls'))) =>
            /\ pc' = "collect"
            /\ run_out' = Pending
            /\ stats'.total_requests = stats.total_requests + 1
            /\ stats'.successful_requests = stats.successful_requests + 1
            /\ stats'.failed_requests = stats.failed_requests]_vars
    /\ []((RunReturned /\ \E i \in 1..Len(save_calls) : WriteFailed(save_calls[i])) =>
            stats.total_requests = NUnits)

\* the first export failed on the ranges file, a later one went through,
\* and the run has returned
C17_Witness ==
    /\ RunReturned
    /\ Len(save_calls) >= 2
    /\ save_calls[1].io = "ranges_fails"
    /\ save_calls[1].out = Return(FALSE)
    /\ save_calls[2].io = "ok"
    /\ save_calls[2].out = Return(TRUE)
    /\ Len(RangesLines(UnitType(save_calls[2].unit))) > 0

\* a worker can take a step: a request is in flight (and ends), or a unit
\* is queued and a worker is free
WorkerCanStep ==
    \E u \in Submitted :
        \/ futures[u].state = "running"
        \/ futures[u].state = "pending" /\ Cardinality(Running) < max_workers
\* the main thread can take a step of run_scraper
MainCanStep ==
    \/ pc \in {"clear", "submit"}
    \/ /\ pc = "collect"
       /\ \/ \E u \in Submitted : futures[u].state = "finished"
          \/ \A u \in 1..NUnits : futures[u].state = "yielded"
    \/ /\ pc = "shutdown"
       /\ \A u \in Submitted : futures[u].state \in {"finished", "yielded"}

\* C18: run_scraper eventually returns its statistics: as long as it has
\* not returned, the main thread or a worker has a step to take (every
\* request ends, and a step that can be taken is taken); and when it returns
\* every submitted unit has completed and has been recorded exactly once.
C18_EventuallyReturns ==
    /\ ~RunReturned => (MainCanStep \/ WorkerCanStep)
    /\ RunReturned =>
          /\ \A u \in 1..NUnits : futures[u].state = "yielded"
          /\ stats.total_requests = NUnits

----------------------------------------------------------------------------
(* Properties of the document parser *)

\* the table of the fetched document, and its rows after the two header
\* rows that hold a <td> cell
FetchedTable == FindTable(response.text, TableClass(fetch_type))
DataTrs == SelectSeq(DropFirst(FetchedTable[1].trs, 2), LAMBDA tr : tr # <<>>)

\* C19: the Row Records that parsing a document gives are one record for
\* each row after the second that has a <td> cell, in document order,
\* whatever rows without cells lie between them.
C19_OneRecordPerDataRow ==
    (Fetched /\ response.kind = "ok" /\ FetchedTable # None
             /\ fetch_out.kind = "return" /\ RowsPresent(fetch_out.value)) =>
        /\ Len(fetch_out.value.data_rows[1]) = Len(DataTrs)
        /\ \A i \in 1..Len(DataTrs) :
              LET record == fetch_out.value.data_rows[1][i]
              IN  /\ Len(record) = Min(Len(DataTrs[i]), Len(FetchedTable[1].ths) - 1)
                  /\ \A c \in 1..Len(record) :
                        /\ record[c][1] = FetchedTable[1].ths[c + 1]
                        /\ record[c][2] = Strip(DataTrs[i][c])

\* a row without cells lies between data rows, and the parse went through
C19_Witness ==
    /\ Fetched
    /\ response.kind = "ok"
    /\ FetchedTable # None
    /\ \E k \in 4..(Len(FetchedTable[1].trs) - 1) :
          /\ FetchedTable[1].trs[k] = <<>>
          /\ FetchedTable[1].trs[k - 1] # <<>>
          /\ FetchedTable[1].trs[k + 1] # <<>>
    /\ is_success(fetch_out.value)
    /\ Len(fetch_out.value.data_rows[1]) = Len(FetchedTable[1].trs) - 3

----------------------------------------------------------------------------
(* Properties of the router-script export *)

EmptyDirectory == [p \in AllPaths |-> None]
RscLines(country, dtype) ==
    IF files[RscPath(country, dtype)] = None THEN <<>>
    ELSE files[RscPath(country, dtype)][1]

\* C20: when the run has returned, the router script of every successful
\* IPv4 unit holds what MikroTikExporter.export writes for its result, one
\* address-list command per allocation, and no ASN unit has a router script.
C20_Ipv4ResultsExported ==
    RunReturned =>
        \A u \in 1..NUnits :
            Succeeded(u) =>
                LET result == futures[u].outcome.value
                    written == export(EmptyDirectory, result).files
                IN  /\ (UnitType(u) = "ipv4" /\ has_allocations(result)) =>
                          /\ files[RscPath(UnitCountry(u), "ipv4")]
                                = written[RscPath(UnitCountry(u), "ipv4")]
                          /\ Len(RscLines(UnitCountry(u), "ipv4"))
                                = Len(result.allocations[1])
                    /\ UnitType(u) = "asn" =>
                          files[RscPath(UnitCountry(u), "asn")] = None

\* what the classifier gives for one data row: its allocations, none when
\* it returns None or raises
RowOutput(tr, dtype) ==
    LET got == _extract_allocation(ColumnsOf(tr), dtype)
    IN  IF got.kind = "return" /\ got.value # None THEN got.value[1] ELSE <<>>
RECURSIVE ConcatOutputs(_, _)
ConcatOutputs(trs, dtype) ==
    IF trs = <<>> THEN <<>>
    ELSE RowOutput(Head(trs), dtype) \o ConcatOutputs(Tail(trs), dtype)

\* an Aggreg row of an address table whose range cannot be decomposed
Undecomposable(tr) ==
    /\ Len(tr) > 8
    /\ Lower(Strip(tr[6])) = "aggreg"
    /\ ip_range_to_cidrs(Strip(tr[4]), Strip(tr[5])).kind = "raise"

\* C21: a document with an Aggreg row that cannot be decomposed still gives a
\* success result; the row has its Row Record and no allocation, and the
\* records and allocations of the other rows are as without it.
C21_BadAggregateIsLocal ==
    (Fetched /\ response.kind = "ok" /\ FetchedTable # None
             /\ fetch_type \in {"ipv4", "ipv6"}
             /\ \E i \in 1..Len(DataTrs) : Undecomposable(DataTrs[i])) =>
        /\ fetch_out.kind = "return"
        /\ is_success(fetch_out.value)
        /\ Len(fetch_out.value.data_rows[1]) = Len(DataTrs)
        /\ fetch_out.value.allocations # None
        /\ fetch_out.value.allocations[1] = ConcatOutputs(DataTrs, fetch_type)

----------------------------------------------------------------------------
(* Properties of the export *)

\* the data rows of the document unit u was served
UnitTrs(u) ==
    LET table == FindTable(futures[u].response.text, TableClass(UnitType(u)))
    IN  IF table = None THEN <<>>
        ELSE SelectSeq(DropFirst(table[1].trs, 2), LAMBDA tr : tr # <<>>)
RowStatusActive(tr) == Len(tr) > 8 /\ Strip(tr[9]) \in {"Allocated", "Assigned"}
SeqRange(seq) == {seq[i] : i \in 1..Len(seq)}

\* C22: every line of the ranges file of an address type that a unit's save
\* appended is an allocation of a row of that unit's document whose status
\* is "Allocated" or "Assigned".
C22_OnlyActiveRowsExported ==
    \A t \in {"ipv4", "ipv6"} :
        \A k \in 1..Len(RangesLines(t)) :
            LET line == RangesLines(t)[k]
            IN  line.unit # 0 =>
                    \E i \in 1..Len(UnitTrs(line.unit)) :
                        /\ RowStatusActive(UnitTrs(line.unit)[i])
                        /\ line.text \in SeqRange(RowOutput(UnitTrs(line.unit)[i], t))

----------------------------------------------------------------------------
(* Properties of the parsed allocation list *)

Ascending(texts) ==
    \A j \in 1..Len(texts) : \A k \in (j + 1)..Len(texts) :
        BlockOf(texts[j]).network_address < BlockOf(texts[k]).network_address

\* C23: the allocation list of a parsed document is the classifier's output
\* of its data rows, row after row in document order; the blocks of a
\* decomposed Aggreg row stand together, ascending by address.
C23_AllocationsInRowOrder ==
    (Fetched /\ response.kind = "ok" /\ FetchedTable # None
             /\ fetch_out.kind = "return" /\ RowsPresent(fetch_out.value)) =>
        /\ fetch_out.value.allocations # None
        /\ fetch_out.value.allocations[1] = ConcatOutputs(DataTrs, fetch_type)
        /\ \A i \in 1..Len(DataTrs) :
              (/\ fetch_type \in {"ipv4", "ipv6"}
               /\ Len(DataTrs[i]) > 8
               /\ Lower(Strip(DataTrs[i][6])) = "aggreg") =>
                  Ascending(RowOutput(DataTrs[i], fetch_type))

\* an Aggreg row of two blocks between two rows with a literal prefix
C23_Witness ==
    /\ Fetched
    /\ fetch_type = "ipv4"
    /\ fetch_out.kind = "return"
    /\ is_success(fetch_out.value)
    /\ fetch_out.value.allocations = Some(<<"10.0.0.0/1", "10.0.0.5/3", "10.0.0.6/3",
                                            "10.0.0.4/3">>)

----------------------------------------------------------------------------
(* Properties of the units of work *)

\* C24: every submitted unit issues at most one GET request: once its fetch
\* has ended, failed or not, the unit is never queued or run again and its
\* request count stays; no unit is submitted beyond the cross product.
C24_AtMostOneRequest ==
    [][/\ Len(futures') <= NUnits
       /\ \A u \in 1..Len(futures') : futures'[u].requests <= 1
       /\ \A u \in Submitted :
             /\ futures'[u].requests >= futures[u].requests
             /\ futures[u].state \in {"finished", "yielded"} =>
                   /\ futures'[u].state \in {"finished", "yielded"}
                   /\ futures'[u].requests = futures[u].requests
                   /\ futures'[u].outcome = futures[u].outcome]_vars

\* a run has returned with a unit whose one request failed
C24_Witness ==
    /\ RunReturned
    /\ \E u \in Submitted :
          /\ futures[u].response.kind = "RequestException"
          /\ futures[u].requests = 1
          /\ futures[u].state = "yielded"
          /\ Failed(u)

\* C25: one unit is submitted for each pair of countries x data_types, in
\* that order and no more, and at every moment at most max_workers fetch
\* calls are running.
C25_CrossProductBounded ==
    /\ Len(futures) <= Len(countries) * Len(data_types)
    /\ Cardinality(Running) <= max_workers
    /\ pc \in {"collect", "returned"} =>
          /\ Len(futures) = Len(countries) * Len(data_types)
          /\ \A i \in 1..Len(countries) : \A j \in 1..Len(data_types) :
                Cardinality({u \in Submitted : /\ UnitCountry(u) = countries[i]
                                               /\ UnitType(u) = data_types[j]}) = 1

\* four units are submitted, two run at once and two wait for a worker
C25_Witness ==
    /\ NUnits = 4
    /\ max_workers = 2
    /\ Cardinality(Running) = 2
    /\ Cardinality({u \in Submitted : futures[u].state = "pending"}) = 2

----------------------------------------------------------------------------
(* Properties of save *)

\* C26: save on a failed result returns False and leaves every file as it
\* is, whatever the disk does; run_scraper makes no save call for a unit
\* whose result is failed.
C26_FailedResultNotSaved ==
    \A u \in Submitted :
        Failed(u) =>
            /\ \A io \in SaveOutcomes :
                  save(files, futures[u].outcome.value, u, io) =
                      [out |-> Return(FALSE), files |-> files]
            /\ SaveCallsOf(u) = {}

\* a returned run with a failed unit beside a saved one
C26_Witness ==
    /\ RunReturned
    /\ \E u \in Submitted : Failed(u) /\ futures[u].state = "yielded"
    /\ \E v \in Submitted : Succeeded(v) /\ SaveCallsOf(v) # {}
    /\ \E p \in AllPaths : files[p] # None

----------------------------------------------------------------------------
(* Properties of ScraperStats *)

CallsOf(op) == {i \in 1..Len(calls) : calls[i].op = op}

\* C27: after any sequence of record_success and record_failure calls,
\* total_requests is the number of calls and the sum of the two other
\* counters, each of which counts the calls of its own kind (so every
\* call adds one to total_requests and one to exactly one of them),
\* countries_processed is the set of the codes passed, and success_rate is
\* 0 when no call was made.
C27_StatsConsistent ==
    /\ stats.total_requests = stats.successful_requests + stats.failed_requests
    /\ stats.total_requests = Len(calls)
    /\ stats.successful_requests = Cardinality(CallsOf("record_success"))
    /\ stats.failed_requests = Cardinality(CallsOf("record_failure"))
    /\ stats.countries_processed = {calls[i].code : i \in 1..Len(calls)}
    /\ stats.total_requests = 0 => success_rate(stats)[1] = 0

\* both kinds of call were made and a code was passed more than once
C27_Witness ==
    /\ CallsOf("record_success") # {}
    /\ CallsOf("record_failure") # {}
    /\ \E i, j \in 1..Len(calls) : i # j /\ calls[i].code = calls[j].code
    /\ Cardinality(stats.countries_processed) < Len(calls)

----------------------------------------------------------------------------
(* Properties of the success counter *)

SaveReturned(u, value) ==
    \E i \in SaveCallsOf(u) : save_calls[i].out = Return(value)

\* C28, as stated: the units counted in successful_requests are those whose
\* save returned True; a unit whose save returned False is not counted.
C28_SuccessIffPersisted ==
    stats.successful_requests =
        Cardinality({u \in Submitted : SaveReturned(u, TRUE)})

\* C28, amended: the units counted in successful_requests are those whose
\* fetch succeeded and whose save call returned, with True or with False:
\* the value save returns is not looked at, only an exception raised by save
\* keeps the unit from being counted.
C28_SuccessIffSaveReturned ==
    /\ \A i \in 1..Len(save_calls) : Succeeded(save_calls[i].unit)
    /\ \A u \in Submitted :
          (Succeeded(u) /\ futures[u].state = "yielded") => SaveCallsOf(u) # {}
    /\ stats.successful_requests =
          Cardinality({u \in Submitted : SaveReturned(u, TRUE) \/ SaveReturned(u, FALSE)})

\* the one unit of a returned run was not written, and is counted a success
C28_Witness ==
    /\ RunReturned
    /\ NUnits = 1
    /\ SaveReturned(1, FALSE)
    /\ files[CsvPath(UnitCountry(1), UnitType(1))] = None
    /\ stats.successful_requests = 1
    /\ stats.failed_requests = 0

----------------------------------------------------------------------------
(* Properties of a save that reports failure *)

\* the step is a call of save that returns False
SaveReturnsFalse ==
    /\ save_calls = <<>>
    /\ save_calls' # <<>>
    /\ save_calls'[1].out = Return(FALSE)
SavedCsv == CsvPath(country_code, fetch_type)
IsPrefix(old, new) == Len(old) <= Len(new) /\ SubSeq(new, 1, Len(old)) = old
LinesOf(fs, path) == IF fs[path] = None THEN <<>> ELSE fs[path][1]

\* C29, as stated: a call of save that returns False has created or modified
\* neither the CSV of the result nor the ranges file of its type.
C29_SaveAllOrNothing ==
    [][SaveReturnsFalse =>
          /\ files'[SavedCsv] = files[SavedCsv]
          /\ files'[RangesPath(fetch_type)] = files[RangesPath(fetch_type)]]_vars

\* C29, amended: a call of save that returns False for a failed result
\* leaves every file as it is; one that returns False because a write
\* failed touches no file but the CSV of the result and the ranges file of
\* its type, and only appends to the ranges file, but the CSV may be written
\* without its range lines and the allocation list appended in part.
C29_FailedSaveIsConfined ==
    [][SaveReturnsFalse =>
          /\ ~is_success(fetch_out.value) => files' = files
          /\ \A p \in AllPaths \ {SavedCsv, RangesPath(fetch_type)} :
                files'[p] = files[p]
          /\ files[RangesPath(fetch_type)] # None =>
                files'[RangesPath(fetch_type)] # None
          /\ IsPrefix(LinesOf(files, RangesPath(fetch_type)),
                      LinesOf(files', RangesPath(fetch_type)))]_vars

\* save returned False after writing the CSV and appending one of the two
\* allocations behind the line the ranges file held
C29_Witness ==
    /\ save_calls # <<>>
    /\ save_calls[1].out = Return(FALSE)
    /\ is_success(fetch_out.value)
    /\ files[SavedCsv] = Some(ToCsv(fetch_out.value.data_rows[1]))
    /\ Len(fetch_out.value.allocations[1]) = 2
    /\ LinesOf(files, RangesPath(fetch_type)) =
          <<[text |-> "stale", unit |-> 0],
            [text |-> fetch_out.value.allocations[1][1], unit |-> 1]>>

----------------------------------------------------------------------------
(* Properties of the files a run touches *)

Unrequested == {t \in DataTypes : ~Requested(t)}
\* the step is the loop body on unit u
Collects(u) ==
    /\ u \in Submitted
    /\ futures[u].state = "finished"
    /\ futures'[u].state = "yielded"
Changed == {p \in AllPaths : files'[p] # files[p]}

\* C30: no step of a run changes the ranges file of a data type that was
\* not requested; the clearing step changes only the ranges files of the
\* requested types; the loop body on a unit of type T changes at most the
\* ranges file of T, by appending to it, and the CSV of the unit's
\* (country, T); no other step changes a file.
C30_OnlyRequestedFilesTouched ==
    [][/\ \A t \in Unrequested : files'[RangesPath(t)] = files[RangesPath(t)]
       /\ pc = "clear" =>
             Changed \subseteq {RangesPath(data_types[i]) : i \in 1..Len(data_types)}
       /\ \A u \in Submitted :
             Collects(u) =>
                /\ Changed \subseteq {RangesPath(UnitType(u)),
                                      CsvPath(UnitCountry(u), UnitType(u))}
                /\ IsPrefix(LinesOf(files, RangesPath(UnitType(u))),
                            LinesOf(files', RangesPath(UnitType(u))))
       /\ (pc # "clear" /\ \A u \in Submitted : ~Collects(u)) => Changed = {}]_vars

\* a returned run that wrote the ranges file of its type anew beside the
\* stale ranges file of a type that was not requested
C30_Witness ==
    /\ RunReturned
    /\ \E t \in Unrequested :
          files[RangesPath(t)] = Some(<<[text |-> "stale", unit |-> 0]>>)
    /\ \E t \in DataTypes :
          /\ Requested(t)
          /\ RangesLines(t) # <<>>
          /\ \A k \in 1..Len(RangesLines(t)) : RangesLines(t)[k].unit # 0

====
